---- MODULE Spec2Model ----
(***************************************************************************)
(* Model of the directory summariser: the scan of a directory             *)
(* (read_all_files), the classifier (classify_file), the aggregator       *)
(* (SummaryInput::from_files), the compression planner                    *)
(* (Config::compress_percent, SummaryInput::target_words) and the          *)
(* summariser (generate_and_save / main).                                  *)
(*                                                                         *)
(* The repository holds the pipeline twice: once as the single file        *)
(* src/main.rs and once split over file_processor.rs, summary.rs,          *)
(* config.rs and api.rs.  The two differ only in read_all_files; the       *)
(* variable impl says which of the two a run executes.                     *)
(*                                                                         *)
(* A Rust string is modelled as a sequence of one-character strings, so    *)
(* that lower-casing, extension splitting, byte-wise ordering, whitespace  *)
(* tokenisation and formatting are computed and not assumed.               *)
(***************************************************************************)
EXTENDS Integers, Sequences, FiniteSets, TLC

(***************************************************************************)
(* Bounds of the model                                                     *)
(***************************************************************************)
\* largest number of entries of the scanned directory
MaxEntries == 2

\* longest list handed to the aggregator when it is checked on its own
MaxFiles == 2

\* the planner is checked for every total in 0..MaxTotalWords (and 999, 1000)
MaxTotalWords == 120

(***************************************************************************)
(* Program constants                                                       *)
(***************************************************************************)
\* compress_summary and compress_pct are u8
U8Max == 255

\* raw.max(50)
MinTargetWords == 50

\* compress_summary.clamp(1, 100)
ClampLo == 1

ClampHi == 100

(***************************************************************************)
(* Characters and strings                                                  *)
(***************************************************************************)
\* the byte of each (ASCII) character the model uses
CharCode ==
    ("a" :> 97) @@ ("b" :> 98) @@ ("c" :> 99) @@ ("d" :> 100) @@ ("e" :> 101) @@ ("f" :> 102) @@
    ("g" :> 103) @@ ("h" :> 104) @@ ("i" :> 105) @@ ("j" :> 106) @@ ("k" :> 107) @@ ("l" :> 108) @@
    ("m" :> 109) @@ ("n" :> 110) @@ ("o" :> 111) @@ ("p" :> 112) @@ ("q" :> 113) @@ ("r" :> 114) @@
    ("s" :> 115) @@ ("t" :> 116) @@ ("u" :> 117) @@ ("v" :> 118) @@ ("w" :> 119) @@ ("x" :> 120) @@
    ("y" :> 121) @@ ("z" :> 122) @@ ("A" :> 65) @@ ("B" :> 66) @@ ("C" :> 67) @@ ("D" :> 68) @@
    ("E" :> 69) @@ ("F" :> 70) @@ ("G" :> 71) @@ ("H" :> 72) @@ ("I" :> 73) @@ ("J" :> 74) @@
    ("K" :> 75) @@ ("L" :> 76) @@ ("M" :> 77) @@ ("N" :> 78) @@ ("O" :> 79) @@ ("P" :> 80) @@
    ("Q" :> 81) @@ ("R" :> 82) @@ ("S" :> 83) @@ ("T" :> 84) @@ ("U" :> 85) @@ ("V" :> 86) @@
    ("W" :> 87) @@ ("X" :> 88) @@ ("Y" :> 89) @@ ("Z" :> 90) @@ ("0" :> 48) @@ ("1" :> 49) @@
    ("2" :> 50) @@ ("3" :> 51) @@ ("4" :> 52) @@ ("5" :> 53) @@ ("6" :> 54) @@ ("7" :> 55) @@
    ("8" :> 56) @@ ("9" :> 57) @@ (" " :> 32) @@ ("\n" :> 10) @@ ("\t" :> 9) @@ ("." :> 46) @@
    ("=" :> 61) @@ (":" :> 58) @@ ("#" :> 35)

\* char::to_lowercase on the ASCII letters
AsciiLower ==
    ("A" :> "a") @@ ("B" :> "b") @@ ("C" :> "c") @@ ("D" :> "d") @@ ("E" :> "e") @@ ("F" :> "f") @@
    ("G" :> "g") @@ ("H" :> "h") @@ ("I" :> "i") @@ ("J" :> "j") @@ ("K" :> "k") @@ ("L" :> "l") @@
    ("M" :> "m") @@ ("N" :> "n") @@ ("O" :> "o") @@ ("P" :> "p") @@ ("Q" :> "q") @@ ("R" :> "r") @@
    ("S" :> "s") @@ ("T" :> "t") @@ ("U" :> "u") @@ ("V" :> "v") @@ ("W" :> "w") @@ ("X" :> "x") @@
    ("Y" :> "y") @@ ("Z" :> "z")

\* the upper-case letter of each lower-case letter; only used to build inputs
AsciiUpper ==
    ("a" :> "A") @@ ("b" :> "B") @@ ("c" :> "C") @@ ("d" :> "D") @@ ("e" :> "E") @@ ("f" :> "F") @@
    ("g" :> "G") @@ ("h" :> "H") @@ ("i" :> "I") @@ ("j" :> "J") @@ ("k" :> "K") @@ ("l" :> "L") @@
    ("m" :> "M") @@ ("n" :> "N") @@ ("o" :> "O") @@ ("p" :> "P") @@ ("q" :> "Q") @@ ("r" :> "R") @@
    ("s" :> "S") @@ ("t" :> "T") @@ ("u" :> "U") @@ ("v" :> "V") @@ ("w" :> "W") @@ ("x" :> "X") @@
    ("y" :> "Y") @@ ("z" :> "Z")

\* char::is_whitespace on the characters of the model
is_whitespace(c) == c \in {" ", "\n", "\t"}

\* variant: the extension is used in the case it is written in
to_lowercase_skipped(s) == s

\* str::to_lowercase
to_lowercase(s) ==
    [i \in 1..Len(s) |-> IF s[i] \in DOMAIN AsciiLower THEN AsciiLower[s[i]] ELSE s[i]]

\* upper-case and capitalised spellings, for the inputs of the classifier
to_uppercase(s) ==
    [i \in 1..Len(s) |-> IF s[i] \in DOMAIN AsciiUpper THEN AsciiUpper[s[i]] ELSE s[i]]

capitalised(s) ==
    [i \in 1..Len(s) |-> IF i = 1 /\ s[i] \in DOMAIN AsciiUpper THEN AsciiUpper[s[i]] ELSE s[i]]

\* Option<String>
None == [some |-> FALSE, val |-> << >>]

Some(v) == [some |-> TRUE, val |-> v]

\* Path::extension: nothing when the name has no dot or only a leading one,
\* else what follows the last dot
extension(name) ==
    LET dots == {i \in 1..Len(name) : name[i] = "."}
        last == CHOOSE i \in dots : \A j \in dots : j <= i
    IN  IF dots = {} THEN None
        ELSE IF last = 1 THEN None
        ELSE Some(SubSeq(name, last + 1, Len(name)))

\* the extension as read_all_files hands it to classify_file
normalised_extension(name) ==
    LET e == extension(name)
    IN  IF e.some THEN Some(to_lowercase(e.val)) ELSE None

\* Ord of OsString: byte-wise lexicographic order
RECURSIVE os_str_less(_, _)
os_str_less(a, b) ==
    IF b = << >> THEN FALSE
    ELSE IF a = << >> THEN TRUE
    ELSE IF CharCode[Head(a)] # CharCode[Head(b)] THEN CharCode[Head(a)] < CharCode[Head(b)]
    ELSE os_str_less(Tail(a), Tail(b))

(***************************************************************************)
(* Classifier                                                              *)
(***************************************************************************)
TEXT_EXTENSIONS ==
    { <<"t", "x", "t">>, <<"m", "d">>, <<"r", "s">>,
      <<"t", "o", "m", "l">>, <<"y", "a", "m", "l">>, <<"y", "m", "l">>,
      <<"j", "s", "o", "n">>, <<"c", "s", "v">>, <<"l", "o", "g">>,
      <<"c", "f", "g">>, <<"i", "n", "i">>, <<"x", "m", "l">>,
      <<"h", "t", "m", "l">>, <<"c", "s", "s">>, <<"j", "s">>,
      <<"t", "s">>, <<"p", "y">>, <<"s", "h">>,
      <<"b", "a", "t">>, <<"c">>, <<"c", "p", "p">>,
      <<"h">>, <<"h", "p", "p">>, <<"j", "a", "v", "a">>,
      <<"g", "o">>, <<"r", "b">>, <<"p", "h", "p">>,
      <<"s", "q", "l">>, <<"r">>, <<"s", "w", "i", "f", "t">>,
      <<"k", "t">>, <<"s", "c", "a", "l", "a">>, <<"t", "e", "x">>,
      <<"r", "t", "f">> }

IMAGE_EXTENSIONS ==
    { <<"j", "p", "g">>, <<"j", "p", "e", "g">>, <<"p", "n", "g">>,
      <<"w", "e", "b", "p">>, <<"g", "i", "f">>, <<"b", "m", "p">>,
      <<"t", "i", "f", "f">>, <<"t", "i", "f">> }

PDF_EXTENSION == <<"p", "d", "f">>

\* variant: the "pdf" branch is missing
classify_file_without_pdf(ext) ==
    IF ext \in IMAGE_EXTENSIONS THEN "Image"
    ELSE IF ext \in TEXT_EXTENSIONS THEN "Text"
    ELSE "None"

classify_file(ext) ==
    IF ext = PDF_EXTENSION THEN "Pdf"
    ELSE IF ext \in IMAGE_EXTENSIONS THEN "Image"
    ELSE IF ext \in TEXT_EXTENSIONS THEN "Text"
    ELSE "None"

\* the strategy read_all_files picks for a file name ("NoExt": the entry is
\* passed over before classify_file is called)
strategy_of(name) ==
    LET e == normalised_extension(name)
    IN  IF e.some THEN classify_file(e.val) ELSE "NoExt"

(***************************************************************************)
(* Aggregator                                                              *)
(***************************************************************************)
\* str::split_whitespace().count(): a scan that counts the starts of tokens
RECURSIVE split_scan(_, _, _)
split_scan(s, i, inToken) ==
    IF i > Len(s) THEN 0
    ELSE IF is_whitespace(s[i]) THEN split_scan(s, i + 1, FALSE)
    ELSE (IF inToken THEN 0 ELSE 1) + split_scan(s, i + 1, TRUE)

\* variant: split(' ').count(), one more than the number of blanks
split_on_blank_count(s) == 1 + Cardinality({ i \in 1..Len(s) : s[i] = " " })

split_whitespace_count(s) == split_scan(s, 1, FALSE)

\* format!("=== File: {} ===\n{}\n\n", name, content)
BlockHead == <<"=", "=", "=", " ", "F", "i", "l", "e", ":", " ">>

BlockMid == <<" ", "=", "=", "=", "\n">>

BlockTail == <<"\n", "\n">>

format_block(name, content) == BlockHead \o name \o BlockMid \o content \o BlockTail

\* the loop of from_files: files[i..] appended to what was built so far
RECURSIVE from_files_loop(_, _, _, _)
from_files_loop(files, i, combined, total) ==
    IF i > Len(files)
    THEN [combined_text |-> combined, total_words |-> total, file_count |-> Len(files)]
    ELSE from_files_loop(files, i + 1,
                         combined \o format_block(files[i].name, files[i].content),
                         total + split_whitespace_count(files[i].content))

from_files(files) == from_files_loop(files, 1, << >>, 0)

(***************************************************************************)
(* Compression planner                                                     *)
(***************************************************************************)
\* variant: min(100) only, the lower end is not clamped
compress_percent_upper_only(compress_summary_) ==
    IF compress_summary_ > ClampHi THEN ClampHi ELSE compress_summary_

\* u8::clamp(1, 100)
compress_percent(compress_summary_) ==
    IF compress_summary_ < ClampLo THEN ClampLo
    ELSE IF compress_summary_ > ClampHi THEN ClampHi
    ELSE compress_summary_

\* variant: the quotient is truncated instead of rounded up
floor_percent(total, pct) == (total * pct) \div 100

\* f64::ceil of total * pct / 100.0.  Both factors and their product are
\* integers far below 2^53, so the product is exact and the correctly rounded
\* quotient lies strictly between the two neighbouring integers whenever the
\* division leaves a remainder: the result is the integer ceiling.
ceil_percent(total, pct) ==
    LET product == total * pct
    IN  IF product % 100 = 0 THEN product \div 100 ELSE (product \div 100) + 1

\* variant: the percentage is taken as the share to remove
target_words_of_removed_share(total, compress_pct) ==
    LET raw == ceil_percent(total, 100 - compress_pct)
    IN  IF raw >= MinTargetWords THEN raw ELSE MinTargetWords

\* SummaryInput::target_words
target_words(total, compress_pct) ==
    LET raw == ceil_percent(total, compress_pct)
    IN  IF raw >= MinTargetWords THEN raw ELSE MinTargetWords

(***************************************************************************)
(* Directory scanner: helpers                                              *)
(***************************************************************************)
\* entries.sort_by_key(|e| e.file_name()): insertion into a sorted list
RECURSIVE insert_sorted(_, _)
insert_sorted(e, sorted) ==
    IF sorted = << >> THEN << e >>
    ELSE IF os_str_less(e.name, Head(sorted).name) THEN << e >> \o sorted
    ELSE << Head(sorted) >> \o insert_sorted(e, Tail(sorted))

RECURSIVE sort_by_file_name(_)
sort_by_file_name(es) ==
    IF es = << >> THEN << >>
    ELSE insert_sorted(es[Len(es)], sort_by_file_name(SubSeq(es, 1, Len(es) - 1)))

\* .filter_map(|e| e.ok()): the entries read_dir could not read are dropped
RECURSIVE filter_ok(_)
filter_ok(es) ==
    IF es = << >> THEN << >>
    ELSE (IF Head(es).fault = "entry_err" THEN << >> ELSE << Head(es) >>) \o filter_ok(Tail(es))

\* the list read_all_files iterates over: file_processor.rs collects the
\* readable entries and sorts them, main.rs walks read_dir as it comes
scan_entries(impl_, listing_) ==
    IF impl_ = "modules" THEN sort_by_file_name(filter_ok(listing_)) ELSE listing_

(***************************************************************************)
(* State                                                                   *)
(***************************************************************************)
VARIABLES
    impl,             \* "modules": file_processor.rs + summary.rs; "main_rs": main.rs
    dirState,         \* files_directory: "missing", "unlistable" or "ok"
    listing,          \* the entries of the directory, in the order read_dir yields them
    outputFile,       \* the content of the file at output_path
    compress_summary, \* Config.compress_summary
    pc,               \* where the run stands
    entries,          \* the entries read_all_files iterates over
    idx,              \* the entry the loop of read_all_files stands at
    results,          \* the Vec read_all_files builds
    scanResult,       \* "none" until read_all_files returned, then "ok" or "err"
    inflight,         \* the remote chat call that is awaited, if any
    reads,            \* names of the files whose content was read, in order
    ocrCalls,         \* names of the files a remote extraction call was issued for, in order
    summaryCalls,     \* number of summarisation calls issued
    callsReturned,    \* number of remote chat calls that returned, with a text or an error
    summaryResult,    \* "none" until the summarisation call returned, then "ok" or "err"
    writes,           \* the texts handed to fs::write for output_path, in order
    response,         \* the text the summarisation call returned
    combined_text,    \* SummaryInput.combined_text
    total_words,      \* SummaryInput.total_words
    file_count,       \* SummaryInput.file_count
    compress,         \* the clamped percentage
    target,           \* the planned number of words
    outcome,          \* "running", then what main returned: "ok" or "error"
    fname,            \* classifier on its own: the file name
    ext,              \* classifier on its own: the normalised extension
    ftype             \* classifier on its own: the strategy

envVars == << impl, dirState, listing >>

scanVars == << entries, idx, results, scanResult, reads, ocrCalls >>

summaryVars == << combined_text, total_words, file_count, compress, target >>

sinkVars == << outputFile, summaryCalls, summaryResult, writes, response >>

classVars == << fname, ext, ftype >>

vars == << impl, dirState, listing, outputFile, compress_summary, pc, entries, idx,
           results, scanResult, inflight, reads, ocrCalls, summaryCalls,
           callsReturned, summaryResult, writes, response, combined_text, total_words, file_count, compress, target,
           outcome, fname, ext, ftype >>

(***************************************************************************)
(* Inputs                                                                  *)
(***************************************************************************)
Impls == {"modules", "main_rs"}

\* what can go wrong with one directory entry: read_dir cannot read it, the
\* file cannot be read (or is not UTF-8), the remote extraction call fails
Faults == {"none", "entry_err", "unreadable", "remote_fail"}

\* name, kind and content of the entries a directory is made of; the content
\* of an image or a PDF is the text the remote model extracts from it
DirPool ==
    { [name |-> <<"a", ".", "t", "x", "t">>, kind |-> "file", content |-> <<"a", " ", "b", " ", "c">>],
      [name |-> <<"x", ".", "b", "i", "n">>, kind |-> "file", content |-> <<"z", "z">>],
      [name |-> <<"B", ".", "P", "D", "F">>, kind |-> "file", content |-> <<"p", " ", " ", "q", "\n">>],
      [name |-> <<"c", ".", "J", "p", "G">>, kind |-> "file", content |-> <<"i", "\t", "j">>],
      [name |-> <<"s", ".", "m", "d">>, kind |-> "dir", content |-> << >>],
      [name |-> <<"R", "E", "A", "D", "M", "E">>, kind |-> "file", content |-> <<"r">>] }

EntrySpace ==
    { [name |-> b.name, kind |-> b.kind, content |-> b.content, fault |-> f] :
        b \in DirPool, f \in Faults }

\* a directory holds no name twice
Listings ==
    UNION { { s \in [1..k -> EntrySpace] :
                \A i, j \in 1..k : i # j => s[i].name # s[j].name } : k \in 0..MaxEntries }

\* values of compress_summary in config.yaml
CompressChoices == {0, 25, 150}

\* what output_path holds before the run
OldOutput == <<"o", "l", "d">>

\* texts the summarisation call can answer with
SummaryResponses == { <<"#", " ", "S">>, << >> }

NoCall == [kind |-> "none", file |-> << >>, strategy |-> "None", total |-> 0,
           target |-> 0, pct |-> 0, document |-> << >>]

\* process_image / process_pdf: the chat call for one file
OcrCall(name, strat) ==
    [kind |-> "ocr", file |-> name, strategy |-> strat, total |-> 0,
     target |-> 0, pct |-> 0, document |-> << >>]

\* generate_and_save: the system prompt carries total, target and percentage,
\* the user message carries the combined text
SummaryCall(total, tgt, pct, doc) ==
    [kind |-> "summary", file |-> << >>, strategy |-> "None", total |-> total,
     target |-> tgt, pct |-> pct, document |-> doc]

(***************************************************************************)
(* The run of the pipeline                                                 *)
(***************************************************************************)
ClassifierIdle == fname = << >> /\ ext = None /\ ftype = "None"

PipelineIdle ==
    /\ impl = "modules" /\ dirState = "ok" /\ listing = << >>
    /\ outputFile = OldOutput /\ entries = << >> /\ idx = 1
    /\ scanResult = "none" /\ inflight = NoCall /\ reads = << >> /\ ocrCalls = << >>
    /\ summaryCalls = 0 /\ callsReturned = 0 /\ summaryResult = "none" /\ writes = << >>
    /\ response = << >> /\ outcome = "running"

Init ==
    /\ impl \in Impls
    /\ dirState \in {"missing", "unlistable", "ok"}
    /\ listing \in (IF dirState = "ok" THEN Listings ELSE {<< >>})
    /\ outputFile = OldOutput
    /\ compress_summary = 0
    /\ pc = "start"
    /\ entries = << >> /\ idx = 1 /\ results = << >> /\ scanResult = "none"
    /\ inflight = NoCall /\ reads = << >> /\ ocrCalls = << >>
    /\ summaryCalls = 0 /\ callsReturned = 0 /\ summaryResult = "none"
    /\ writes = << >> /\ response = << >>
    /\ combined_text = << >> /\ total_words = 0 /\ file_count = 0
    /\ compress = 0 /\ target = 0
    /\ outcome = "running"
    /\ ClassifierIdle

\* main up to the call of read_all_files: .env, config.yaml and the API key
\* are loaded; any of them failing ends the run
LoadConfig ==
    /\ pc = "start"
    /\ \/ /\ pc' = "done" /\ outcome' = "error"
          /\ UNCHANGED compress_summary
       \/ /\ \E c \in CompressChoices : compress_summary' = c
          /\ pc' = "scan" /\ UNCHANGED outcome
    /\ UNCHANGED << envVars, callsReturned, scanVars, summaryVars, sinkVars, classVars, inflight >>

\* variant: a missing directory is taken for an empty one
open_dir_without_exists_check(dirState_) ==
    IF dirState_ = "unlistable" THEN "err" ELSE "ok"

\* what the head of read_all_files answers for the directory: "missing" is
\* the bail of the exists() check, "unlistable" the failure of read_dir
open_dir(dirState_) ==
    IF dirState_ = "missing" THEN "err"
    ELSE IF dirState_ = "unlistable" THEN "err"
    ELSE "ok"

\* read_all_files up to its loop; an Err is handed on by the ? of main
ScanOpen ==
    /\ pc = "scan"
    /\ IF open_dir(dirState) = "err"
       THEN /\ scanResult' = "err" /\ pc' = "done" /\ outcome' = "error"
            /\ UNCHANGED << entries, idx >>
       ELSE /\ entries' = scan_entries(impl, listing) /\ idx' = 1
            /\ pc' = "loop" /\ UNCHANGED << scanResult, outcome >>
    /\ UNCHANGED << envVars, callsReturned, compress_summary, results, reads, ocrCalls, summaryVars,
                    sinkVars, classVars, inflight >>

\* one turn of the loop of read_all_files, up to its end or to the await of
\* the remote extraction call
ScanEntry ==
    /\ pc = "loop" /\ idx <= Len(entries)
    /\ LET e == entries[idx]
           strat == strategy_of(e.name)
       IN  IF impl = "main_rs" /\ e.fault = "entry_err"
           THEN \* let entry = entry?;
                /\ scanResult' = "err" /\ results' = << >>
                /\ pc' = "done" /\ outcome' = "error"
                /\ UNCHANGED << idx, reads, ocrCalls, inflight >>
           ELSE IF e.kind # "file" \/ strat \in {"NoExt", "None"}
           THEN \* continue
                /\ idx' = idx + 1
                /\ UNCHANGED << pc, results, scanResult, outcome, reads, ocrCalls, inflight >>
           ELSE IF strat = "Text"
           THEN \* fs::read_to_string
                /\ reads' = Append(reads, e.name)
                /\ results' = IF e.fault = "unreadable" THEN results
                              ELSE Append(results, [name |-> e.name, content |-> e.content])
                /\ idx' = idx + 1
                /\ UNCHANGED << pc, scanResult, outcome, ocrCalls, inflight >>
           ELSE \* process_pdf / process_image: read_and_encode, then chat
                /\ reads' = Append(reads, e.name)
                /\ IF e.fault = "unreadable"
                   THEN /\ idx' = idx + 1
                        /\ UNCHANGED << pc, ocrCalls, inflight >>
                   ELSE /\ inflight' = OcrCall(e.name, strat)
                        /\ ocrCalls' = Append(ocrCalls, e.name)
                        /\ pc' = "await_ocr"
                        /\ UNCHANGED idx
                /\ UNCHANGED << results, scanResult, outcome >>
    /\ UNCHANGED << envVars, callsReturned, compress_summary, entries, summaryVars, sinkVars, classVars >>

\* variant: a file whose remote extraction failed is tried once more
OcrReturn_retrying ==
    /\ pc = "await_ocr"
    /\ LET e == entries[idx]
           tries == Cardinality({ i \in 1..Len(ocrCalls) : ocrCalls[i] = e.name })
       IN  /\ results' = IF e.fault = "remote_fail" THEN results
                          ELSE Append(results, [name |-> e.name, content |-> e.content])
           /\ idx' = IF e.fault = "remote_fail" /\ tries < 2 THEN idx ELSE idx + 1
    /\ inflight' = NoCall
    /\ callsReturned' = callsReturned + 1
    /\ pc' = "loop"
    /\ UNCHANGED << envVars, compress_summary, entries, scanResult, reads, ocrCalls,
                    summaryVars, sinkVars, classVars, outcome >>

\* the remote extraction call returns: the text is pushed, or the file is
\* logged and passed over
OcrReturn ==
    /\ pc = "await_ocr"
    /\ LET e == entries[idx]
       IN  results' = IF e.fault = "remote_fail" THEN results
                      ELSE Append(results, [name |-> e.name, content |-> e.content])
    /\ inflight' = NoCall
    /\ callsReturned' = callsReturned + 1
    /\ idx' = idx + 1
    /\ pc' = "loop"
    /\ UNCHANGED << envVars, compress_summary, entries, scanResult, reads, ocrCalls,
                    summaryVars, sinkVars, classVars, outcome >>

\* variant: main does not look whether the list is empty
ScanReturn_without_empty_check ==
    /\ pc = "loop" /\ idx > Len(entries)
    /\ scanResult' = "ok"
    /\ LET doc == from_files(results)
           pct == compress_percent(compress_summary)
           tgt == target_words(doc.total_words, pct)
       IN  /\ combined_text' = doc.combined_text
           /\ total_words' = doc.total_words
           /\ file_count' = doc.file_count
           /\ compress' = pct
           /\ target' = tgt
           /\ inflight' = SummaryCall(doc.total_words, tgt, pct, doc.combined_text)
           /\ summaryCalls' = summaryCalls + 1
           /\ pc' = "await_summary" /\ UNCHANGED outcome
    /\ UNCHANGED << envVars, callsReturned, compress_summary, entries, idx, results, reads,
                    ocrCalls, outputFile, summaryResult, writes, response, classVars >>

\* read_all_files returns Ok(results); main ends when the list is empty, else
\* it clamps the percentage, aggregates, plans and issues the summary call
ScanReturn ==
    /\ pc = "loop" /\ idx > Len(entries)
    /\ scanResult' = "ok"
    /\ IF results = << >>
       THEN /\ pc' = "done" /\ outcome' = "ok"
            /\ UNCHANGED << summaryVars, inflight, summaryCalls >>
       ELSE LET doc == from_files(results)
                pct == compress_percent(compress_summary)
                tgt == target_words(doc.total_words, pct)
            IN  /\ combined_text' = doc.combined_text
                /\ total_words' = doc.total_words
                /\ file_count' = doc.file_count
                /\ compress' = pct
                /\ target' = tgt
                /\ inflight' = SummaryCall(doc.total_words, tgt, pct, doc.combined_text)
                /\ summaryCalls' = summaryCalls + 1
                /\ pc' = "await_summary" /\ UNCHANGED outcome
    /\ UNCHANGED << envVars, callsReturned, compress_summary, entries, idx, results, reads, ocrCalls,
                    outputFile, summaryResult, writes, response, classVars >>

\* what fs::write leaves at output_path: the data, the old content when the
\* file could not be created, or a part of the data when writing broke off
write_results(old, data) ==
    { [ok |-> TRUE, file |-> data], [ok |-> FALSE, file |-> old] }
    \cup { [ok |-> FALSE, file |-> SubSeq(data, 1, k)] : k \in 0..(Len(data) - 1) }

\* what the summarisation call can return: an error or a text
chat_results == { [ok |-> FALSE, text |-> << >>] } \cup { [ok |-> TRUE, text |-> r] : r \in SummaryResponses }

\* variant: the output file is created before the answer is looked at
save_results_creating_first(chat, old) ==
    IF ~chat.ok
    THEN { [outcome |-> "error", written |-> << << >> >>, file |-> << >>] }
    ELSE { [outcome |-> IF w.ok THEN "ok" ELSE "error", written |-> << chat.text >>,
            file |-> w.file] : w \in write_results(<< >>, chat.text) }

\* the end of generate_and_save (and of main), given what the call returned:
\* the ? hands an error on before anything is written; a text is written as
\* it is, and a failed write is an error too
save_results(chat, old) ==
    IF ~chat.ok
    THEN { [outcome |-> "error", written |-> << >>, file |-> old] }
    ELSE { [outcome |-> IF w.ok THEN "ok" ELSE "error", written |-> << chat.text >>,
            file |-> w.file] : w \in write_results(old, chat.text) }

\* variant: a failed summary call is issued once more
SummaryReturn_retrying ==
    /\ pc = "await_summary"
    /\ callsReturned' = callsReturned + 1
    /\ \E chat \in chat_results :
         IF ~chat.ok /\ summaryCalls < 2
         THEN /\ summaryCalls' = summaryCalls + 1
              /\ UNCHANGED << pc, inflight, summaryResult, response, writes, outputFile,
                              outcome >>
         ELSE \E s \in save_results(chat, outputFile) :
                /\ inflight' = NoCall /\ pc' = "done"
                /\ summaryResult' = IF chat.ok THEN "ok" ELSE "err"
                /\ response' = chat.text
                /\ writes' = writes \o s.written
                /\ outputFile' = s.file
                /\ outcome' = s.outcome
                /\ UNCHANGED summaryCalls
    /\ UNCHANGED << envVars, compress_summary, scanVars, summaryVars, classVars >>

\* the summary call returns: an error ends the run, a text is written to
\* output_path
SummaryReturn ==
    /\ pc = "await_summary"
    /\ inflight' = NoCall
    /\ callsReturned' = callsReturned + 1
    /\ pc' = "done"
    /\ \E chat \in chat_results : \E s \in save_results(chat, outputFile) :
         /\ summaryResult' = IF chat.ok THEN "ok" ELSE "err"
         /\ response' = chat.text
         /\ writes' = writes \o s.written
         /\ outputFile' = s.file
         /\ outcome' = s.outcome
    /\ UNCHANGED << envVars, compress_summary, scanVars, summaryVars, summaryCalls,
                    classVars >>

Next == LoadConfig \/ ScanOpen \/ ScanEntry \/ OcrReturn \/ ScanReturn \/ SummaryReturn

Spec == Init /\ [][Next]_vars

(***************************************************************************)
(* The compression planner on its own: every total and every u8            *)
(* percentage is clamped as main does, then planned                        *)
(***************************************************************************)
TotalWordsDomain == (0..MaxTotalWords) \cup {999, 1000}

InitPlan ==
    /\ PipelineIdle /\ ClassifierIdle
    /\ pc = "plan"
    /\ total_words \in TotalWordsDomain
    /\ compress_summary \in 0..U8Max
    /\ results = << >> /\ combined_text = << >> /\ file_count = 0
    /\ compress = 0 /\ target = 0

\* let compress = config.compress_summary.clamp(1, 100)
ClampPercent ==
    /\ pc = "plan"
    /\ compress' = compress_percent(compress_summary)
    /\ pc' = "clamped"
    /\ UNCHANGED << envVars, callsReturned, scanVars, sinkVars, classVars, inflight, outcome,
                    compress_summary, combined_text, total_words, file_count, target >>

\* generate_and_save up to its await: the target is planned and the call
\* with the prompt is issued
PlanTarget ==
    /\ pc = "clamped"
    /\ target' = target_words(total_words, compress)
    /\ inflight' = SummaryCall(total_words, target', compress, combined_text)
    /\ summaryCalls' = summaryCalls + 1
    /\ pc' = "planned"
    /\ UNCHANGED << envVars, callsReturned, scanVars, classVars, outcome, outputFile, summaryResult,
                    writes, response, compress_summary, combined_text, total_words,
                    file_count, compress >>

NextPlan == ClampPercent \/ PlanTarget

SpecPlan == InitPlan /\ [][NextPlan]_vars

(***************************************************************************)
(* The planner called as it is declared: generate_and_save takes any u8 as *)
(* compress_pct and hands it to target_words                               *)
(***************************************************************************)
\* generate_and_save(api, model, input, compress_pct, ..) up to its await
PlanDirect ==
    /\ pc = "plan"
    /\ compress' = compress_summary
    /\ target' = target_words(total_words, compress_summary)
    /\ inflight' = SummaryCall(total_words, target', compress_summary, combined_text)
    /\ summaryCalls' = summaryCalls + 1
    /\ pc' = "planned_direct"
    /\ UNCHANGED << envVars, callsReturned, scanVars, classVars, outcome, outputFile,
                    summaryResult, writes, response, compress_summary, combined_text,
                    total_words, file_count >>

NextPlanDirect == PlanDirect

SpecPlanDirect == InitPlan /\ [][NextPlanDirect]_vars

(***************************************************************************)
(* The classifier on its own: the extension of a file name is taken,       *)
(* lower-cased and classified, as one turn of the scan does                *)
(***************************************************************************)
SupportedExtensions == {PDF_EXTENSION} \cup IMAGE_EXTENSIONS \cup TEXT_EXTENSIONS

UnsupportedExtensions ==
    { <<"b", "i", "n">>, <<"e", "x", "e">>, <<"d", "o", "c">>, <<"p", "d", "f", "x">>, <<"p", "d">>, <<"j", "p">>, <<"t", "x", "t", "1">>, << >> }

ExtDomain ==
    SupportedExtensions
    \cup { to_uppercase(e) : e \in SupportedExtensions }
    \cup { capitalised(e) : e \in SupportedExtensions }
    \cup { <<"J", "p", "G">>, <<"p", "D", "f">>, <<"T", "x", "T">> }
    \cup UnsupportedExtensions
    \cup { to_uppercase(e) : e \in UnsupportedExtensions }

\* "f.<ext>" for every extension, and names Path::extension finds none in
ClassifyNames ==
    { <<"f", ".">> \o e : e \in ExtDomain } \cup { <<"R", "E", "A", "D", "M", "E">>, <<".", "t", "x", "t">>, <<".", "P", "D", "F">> }

InitClassify ==
    /\ PipelineIdle
    /\ pc = "classify"
    /\ fname \in ClassifyNames
    /\ ext = None /\ ftype = "None"
    /\ compress_summary = 0
    /\ results = << >> /\ combined_text = << >> /\ total_words = 0 /\ file_count = 0
    /\ compress = 0 /\ target = 0

\* file_path.extension() ... to_lowercase(), then classify_file(&ext)
ClassifyEntry ==
    /\ pc = "classify"
    /\ ext' = normalised_extension(fname)
    /\ ftype' = strategy_of(fname)
    /\ pc' = "classified"
    /\ UNCHANGED << envVars, callsReturned, scanVars, sinkVars, summaryVars, inflight, outcome,
                    compress_summary, fname >>

NextClassify == ClassifyEntry

SpecClassify == InitClassify /\ [][NextClassify]_vars

(***************************************************************************)
(* The aggregator on its own: any list of processed files                  *)
(***************************************************************************)
AggNames == { <<"a", ".", "t", "x", "t">>, <<"B", ".", "P", "D", "F">> }

AggContents == { <<"a", " ", "b", " ", "c">>, <<"p", " ", " ", "q", "\n">>, <<" ", "\t">>, << >> }

AggFiles == { [name |-> n, content |-> c] : n \in AggNames, c \in AggContents }

FileLists == UNION { [1..k -> AggFiles] : k \in 0..MaxFiles }

InitAggregate ==
    /\ PipelineIdle /\ ClassifierIdle
    /\ pc = "aggregate"
    /\ results \in FileLists
    /\ compress_summary = 0
    /\ combined_text = << >> /\ total_words = 0 /\ file_count = 0
    /\ compress = 0 /\ target = 0

\* SummaryInput::from_files(&files)
Aggregate ==
    /\ pc = "aggregate"
    /\ LET doc == from_files(results)
       IN  /\ combined_text' = doc.combined_text
           /\ total_words' = doc.total_words
           /\ file_count' = doc.file_count
    /\ pc' = "aggregated"
    /\ UNCHANGED << envVars, callsReturned, scanVars, sinkVars, classVars, inflight, outcome,
                    compress_summary, compress, target >>

NextAggregate == Aggregate

SpecAggregate == InitAggregate /\ [][NextAggregate]_vars

(***************************************************************************)
(* Properties of the scan and of the run                                   *)
(***************************************************************************)
\* the entry is a regular file with a supported extension whose extraction
\* succeeds
Extractable(e) ==
    /\ e.fault # "entry_err"
    /\ e.kind = "file"
    /\ \/ strategy_of(e.name) = "Text" /\ e.fault # "unreadable"
       \/ strategy_of(e.name) \in {"Pdf", "Image"} /\ e.fault \notin {"unreadable", "remote_fail"}

ExpectedResults ==
    { [name |-> listing[i].name, content |-> listing[i].content] :
        i \in { j \in 1..Len(listing) : Extractable(listing[j]) } }

ResultSet == { results[i] : i \in 1..Len(results) }

\* C1: whatever fails for single entries of a listable directory, the scan
\* returns Ok, and its result holds one entry for exactly the regular files
\* with a supported extension whose extraction succeeded, each with that
\* file's content.
ScanIsolatesFailures ==
    dirState = "ok" =>
        /\ scanResult # "err"
        /\ ResultSet \subseteq ExpectedResults
        /\ scanResult = "ok" =>
              /\ ResultSet = ExpectedResults
              /\ Len(results) = Cardinality(ExpectedResults)

\* C2: the list the scan returns is ordered by file name, whatever the order
\* of the directory listing.
ScanResultSorted ==
    scanResult = "ok" =>
        \A i, j \in 1..Len(results) :
            i < j => os_str_less(results[i].name, results[j].name)

\* C3: a run over a directory that does not exist ends in an error, and in
\* it no file is read, no remote call is issued and nothing is written.
MissingDirectoryFailsFirst ==
    dirState = "missing" =>
        /\ scanResult # "ok"
        /\ pc = "done" => outcome = "error"
        /\ reads = << >> /\ ocrCalls = << >> /\ inflight = NoCall
        /\ summaryCalls = 0 /\ writes = << >> /\ outputFile = OldOutput

MissingDirectoryWitness ==
    dirState = "missing" /\ scanResult = "err" /\ pc = "done" /\ outcome = "error"

\* C4: the output is written at most once, only after the scan returned and
\* the summarisation call answered, what is written is the answer and
\* nothing else, and a run that fails at or before the summarisation call
\* leaves the output file as it was.
NoPartialOutput ==
    /\ Len(writes) <= 1
    /\ writes # << >> =>
          /\ scanResult = "ok" /\ summaryCalls = 1 /\ summaryResult = "ok"
          /\ writes = << response >>
    /\ outcome = "ok" /\ writes # << >> => outputFile = response
    /\ writes = << >> => outputFile = OldOutput
    /\ summaryResult # "ok" => writes = << >> /\ outputFile = OldOutput

OutputWrittenWitness ==
    /\ pc = "done" /\ outcome = "ok" /\ writes = << response >>
    /\ outputFile = response /\ response # << >> /\ outputFile # OldOutput

SummaryFailedWitness ==
    pc = "done" /\ summaryResult = "err" /\ outputFile = OldOutput

(***************************************************************************)
(* Properties of the compression planner                                   *)
(***************************************************************************)
\* C5: the planned target is max(50, ceil(total_words * percent / 100)):
\* it is at least 50, it is at least the exact ratio, and above 50 it is
\* less than one word over the exact ratio; plan(0, p) = 50,
\* plan(1000, 25) = 250 and plan(999, 25) = 250.
PlanIsCeilingWithFloor ==
    pc = "planned" =>
        /\ target >= 50
        /\ 100 * target >= total_words * compress
        /\ target > 50 => 100 * (target - 1) < total_words * compress
        /\ total_words = 0 => target = 50
        /\ total_words = 1000 /\ compress = 25 => target = 250
        /\ total_words = 999 /\ compress = 25 => target = 250

PlanCeilingWitness ==
    pc = "planned" /\ total_words = 999 /\ compress = 25 /\ target = 250

\* C6: for a fixed total the plan does not decrease when the percentage
\* grows: no smaller percentage plans more words than the one planned with,
\* no larger one plans fewer.
PlanMonotonicInPercent ==
    pc = "planned" =>
        /\ \A p1 \in 1..compress : target_words(total_words, p1) <= target
        /\ \A p2 \in compress..100 : target <= target_words(total_words, p2)

PlanMonotonicWitness ==
    /\ pc = "planned" /\ total_words = 1000 /\ compress = 60
    /\ target_words(total_words, 25) < target
    /\ target < target_words(total_words, 100)

\* C7: the configured percentage is clamped to 1..100 before it is planned
\* with (150 becomes 100, 0 becomes 1), so the percentage in the planner and
\* in the prompt is in 1..100 and the target is at most max(50, total_words).
PercentClampedBeforePlanning ==
    /\ pc \in {"clamped", "planned"} =>
          /\ compress \in 1..100
          /\ compress_summary = 150 => compress = 100
          /\ compress_summary = 0 => compress = 1
          /\ compress_summary \in 1..100 => compress = compress_summary
    /\ pc = "planned" =>
          /\ inflight.kind = "summary" /\ inflight.pct \in 1..100
          /\ inflight.pct = compress /\ inflight.target = target
          /\ target <= (IF total_words > 50 THEN total_words ELSE 50)

PercentClampedWitness ==
    /\ pc = "planned" /\ compress_summary = 150 /\ compress = 100
    /\ total_words = 120 /\ target = 120 /\ inflight.pct = 100

(***************************************************************************)
(* Properties of the classifier                                            *)
(***************************************************************************)
\* the image extensions as the specification lists them
ListedImageExtensions ==
    { <<"j", "p", "g">>, <<"j", "p", "e", "g">>, <<"p", "n", "g">>, <<"w", "e", "b", "p">>,
      <<"g", "i", "f">>, <<"b", "m", "p">>, <<"t", "i", "f", "f">>, <<"t", "i", "f">> }

\* C8: the classifier gives every extension exactly one answer: Pdf for
\* "pdf", Image for the eight image extensions, Text for the text
\* extensions, no strategy for anything else; the three sets are disjoint.
ClassifyIsTotalAndExact ==
    /\ IMAGE_EXTENSIONS = ListedImageExtensions
    /\ IMAGE_EXTENSIONS \cap TEXT_EXTENSIONS = {}
    /\ PDF_EXTENSION \notin IMAGE_EXTENSIONS \cup TEXT_EXTENSIONS
    /\ pc = "classified" /\ ext.some =>
          /\ ftype \in {"Text", "Image", "Pdf", "None"}
          /\ ext.val = <<"p", "d", "f">> <=> ftype = "Pdf"
          /\ ext.val \in ListedImageExtensions <=> ftype = "Image"
          /\ ext.val \in TEXT_EXTENSIONS <=> ftype = "Text"
          /\ ext.val \notin ListedImageExtensions \cup TEXT_EXTENSIONS \cup {<<"p", "d", "f">>}
                <=> ftype = "None"

ClassifyExactWitness ==
    /\ pc = "classified" /\ fname = <<"f", ".", "t", "i", "f">>
    /\ ext = Some(<<"t", "i", "f">>) /\ ftype = "Image"

\* two strings that differ at most in the case of their ASCII letters
eq_ignore_case(a, b) ==
    /\ Len(a) = Len(b)
    /\ \A i \in 1..Len(a) :
          \/ a[i] = b[i]
          \/ a[i] \in DOMAIN AsciiUpper /\ AsciiUpper[a[i]] = b[i]
          \/ b[i] \in DOMAIN AsciiUpper /\ AsciiUpper[b[i]] = a[i]

\* C9: the strategy of a file does not depend on the case of its extension:
\* an extension that is a supported one up to case gets the strategy of that
\* one, so X.PDF goes where x.pdf goes and Y.JpG where y.jpg goes.
ClassifyIgnoresCase ==
    pc = "classified" /\ extension(fname).some =>
        LET raw == extension(fname).val
        IN  /\ \A k \in SupportedExtensions :
                  eq_ignore_case(raw, k) => ftype = classify_file(k)
            /\ (\A k \in SupportedExtensions : ~eq_ignore_case(raw, k)) => ftype = "None"
            /\ raw = <<"P", "D", "F">> => ftype = "Pdf"
            /\ raw = <<"J", "p", "G">> => ftype = "Image"

ClassifyIgnoresCaseWitness ==
    pc = "classified" /\ fname = <<"f", ".", "P", "D", "F">> /\ ftype = "Pdf"

(***************************************************************************)
(* Properties of the aggregator                                            *)
(***************************************************************************)
\* the number of whitespace-delimited tokens: the positions where a token starts
token_count(s) ==
    Cardinality({ i \in 1..Len(s) :
                    /\ ~is_whitespace(s[i])
                    /\ (i = 1 \/ is_whitespace(s[i - 1])) })

\* the block of one file, "=== File: <name> ===\n<content>\n\n"
labelled_block(f) ==
    <<"=", "=", "=", " ", "F", "i", "l", "e", ":", " ">> \o f.name \o <<" ", "=", "=", "=", "\n">>
    \o f.content \o <<"\n", "\n">>

RECURSIVE blocks_length(_, _)
blocks_length(files, n) ==
    IF n = 0 THEN 0 ELSE blocks_length(files, n - 1) + Len(labelled_block(files[n]))

RECURSIVE tokens_upto(_, _)
tokens_upto(files, n) ==
    IF n = 0 THEN 0 ELSE tokens_upto(files, n - 1) + token_count(files[n].content)

\* C10: combined_text is the blocks of the results one after the other in
\* the order of the list (the n-th block is that of the n-th result and
\* nothing else is in the text), total_words is the sum of the token counts
\* of the contents, file_count is the length of the list.
AggregateKeepsOrderAndCounts ==
    pc = "aggregated" =>
        /\ file_count = Len(results)
        /\ total_words = tokens_upto(results, Len(results))
        /\ Len(combined_text) = blocks_length(results, Len(results))
        /\ \A n \in 1..Len(results) :
              SubSeq(combined_text, blocks_length(results, n - 1) + 1,
                     blocks_length(results, n)) = labelled_block(results[n])

AggregateWitness ==
    /\ pc = "aggregated" /\ Len(results) = 2
    /\ results[1].name # results[2].name
    /\ results[1].content = <<"p", " ", " ", "q", "\n">> /\ results[2].content = <<"a", " ", "b", " ", "c">>
    /\ total_words = 5 /\ file_count = 2

(***************************************************************************)
(* Properties of the summariser and of the order of the run                *)
(***************************************************************************)
\* C11: the summariser issues one remote call, with the whole combined text,
\* whether the call succeeds or fails; a failed call is not issued again and
\* its failure is the error of the run.
SummarizerCallsOnce ==
    /\ summaryCalls <= 1
    /\ pc = "await_summary" =>
          /\ summaryCalls = 1 /\ summaryResult = "none"
          /\ inflight.kind = "summary"
          /\ inflight.document = from_files(results).combined_text
    /\ summaryResult # "none" =>
          /\ summaryCalls = 1 /\ pc = "done" /\ inflight = NoCall
    /\ summaryResult = "err" => outcome = "error"

SummarizerFailedOnceWitness ==
    /\ pc = "done" /\ summaryResult = "err" /\ summaryCalls = 1
    /\ outcome = "error" /\ Len(results) = 2

\* the names of a log are in strictly ascending byte order
ascending(names) ==
    \A i, j \in 1..Len(names) : i < j => os_str_less(names[i], names[j])

\* C12: the run is sequential: at most one remote call is in flight, the
\* extraction calls are issued in the order of the file names, no other file
\* is touched while one is awaited, and the summary call is issued only
\* after the last extraction has returned.
RunIsSequentialAndSorted ==
    /\ Len(ocrCalls) + summaryCalls - callsReturned \in {0, 1}
    /\ (Len(ocrCalls) + summaryCalls - callsReturned = 1) <=> (inflight # NoCall)
    /\ ascending(ocrCalls)
    /\ pc = "await_ocr" =>
          /\ inflight.kind = "ocr"
          /\ reads # << >> /\ reads[Len(reads)] = inflight.file
          /\ ocrCalls[Len(ocrCalls)] = inflight.file
    /\ summaryCalls > 0 =>
          /\ scanResult = "ok" /\ idx > Len(entries)
          /\ callsReturned >= Len(ocrCalls)

\* a log names nothing twice
no_repeats(names) ==
    \A i, j \in 1..Len(names) : i # j => names[i] # names[j]

\* the extension of the name is, up to case, one of the given ones
has_extension_in(name, exts) ==
    /\ extension(name).some
    /\ \E k \in exts : eq_ignore_case(extension(name).val, k)

\* the entries of the directory with the given name
listed(name) == { listing[i] : i \in { j \in 1..Len(listing) : listing[j].name = name } }

\* C13: every entry is attempted at most once: no file is read twice, a
\* remote extraction call is issued at most once per file and only for a
\* regular image or PDF file whose bytes could be read; text files,
\* unsupported files, files without extension and directories cause none.
ExtractionAttemptedOnce ==
    /\ no_repeats(reads) /\ no_repeats(ocrCalls)
    /\ Len(ocrCalls) <= Len(listing)
    /\ \A i \in 1..Len(ocrCalls) :
          /\ has_extension_in(ocrCalls[i], ListedImageExtensions \cup {<<"p", "d", "f">>})
          /\ ~has_extension_in(ocrCalls[i], TEXT_EXTENSIONS)
          /\ \E r \in 1..Len(reads) : reads[r] = ocrCalls[i]
          /\ \A e \in listed(ocrCalls[i]) :
                e.kind = "file" /\ e.fault \notin {"unreadable", "entry_err"}
    /\ \A i \in 1..Len(reads) :
          \A e \in listed(reads[i]) : e.kind = "file" /\ e.fault # "entry_err"

FailedExtractionNotRepeatedWitness ==
    /\ scanResult = "ok" /\ Len(listing) = 2
    /\ ocrCalls = << <<"c", ".", "J", "p", "G">> >>
    /\ \A e \in listed(<<"c", ".", "J", "p", "G">>) : e.fault = "remote_fail"
    /\ \E r \in 1..Len(reads) : reads[r] = <<"a", ".", "t", "x", "t">>
    /\ callsReturned >= 1

\* C14: the planner clamps the percentage it is given to 1..100 itself:
\* whatever u8 it is called with, it plans as for that value clamped, so
\* plan(t, 0) = plan(t, 1) and plan(t, 150) = plan(t, 100).
PlannerClampsItself ==
    pc = "planned_direct" =>
        LET given == compress_summary
            clamped == IF given < 1 THEN 1 ELSE IF given > 100 THEN 100 ELSE given
        IN  /\ target = target_words(total_words, clamped)
            /\ given = 0 => target = target_words(total_words, 1)
            /\ given = 150 => target = target_words(total_words, 100)

\* C15: a scan that returns an empty list is no error: the run ends with
\* success, no summary call is issued and the output file stays as it was.
EmptyScanEndsQuietly ==
    scanResult = "ok" /\ results = << >> =>
        /\ pc = "done" /\ outcome = "ok"
        /\ summaryCalls = 0 /\ summaryResult = "none" /\ inflight = NoCall
        /\ writes = << >> /\ outputFile = OldOutput

AllFilesSkippedWitness ==
    /\ scanResult = "ok" /\ results = << >> /\ Len(listing) = 2
    /\ reads # << >> /\ ocrCalls # << >>
    /\ pc = "done" /\ outcome = "ok" /\ outputFile = OldOutput
====
